---------------------------- MODULE Spec2Model ----------------------------
(***************************************************************************)
(* A model of the browser client src/frontend/app.js: the play/pause state *)
(* machine (playAudio, pauseAudio, togglePlayPause and the DOM listeners), *)
(* the /info request, the audio element and the waveform WebSocket.        *)
(*                                                                         *)
(* The file holds two copies of the script; the second copy (lines 254 to  *)
(* 557) is the later revision (it adds WS_PROTOCOL and validateUrl) and is *)
(* the one modelled here.                                                  *)
(*                                                                         *)
(* JavaScript runs every handler to completion, so one action is one task  *)
(* of the event loop together with the microtasks it leaves behind: a      *)
(* handler up to its next await on the network or on the media element.    *)
(* Strings are sequences of one-character strings, so that trim,           *)
(* URL_PATTERN and encodeURIComponent are computed character by character. *)
(***************************************************************************)
EXTENDS Integers, Sequences, FiniteSets, TLC

(***************************************************************************)
(* Characters                                                              *)
(***************************************************************************)
Digit == {"0", "1", "2", "3", "4", "5", "6", "7", "8", "9"}

Lower == {"a", "b", "c", "d", "e", "f", "g", "h", "i", "j", "k", "l", "m",
          "n", "o", "p", "q", "r", "s", "t", "u", "v", "w", "x", "y", "z"}

Upper == {"A", "B", "C", "D", "E", "F", "G", "H", "I", "J", "K", "L", "M",
          "N", "O", "P", "Q", "R", "S", "T", "U", "V", "W", "X", "Y", "Z"}

Letter == Lower \cup Upper

AlNum == Letter \cup Digit

\* What String.prototype.trim strips and what \S excludes.
WhiteSpace == {" ", "\t", "\n"}

DigitValue(c) ==
    CASE c = "0" -> 0 [] c = "1" -> 1 [] c = "2" -> 2 [] c = "3" -> 3
      [] c = "4" -> 4 [] c = "5" -> 5 [] c = "6" -> 6 [] c = "7" -> 7
      [] c = "8" -> 8 [] c = "9" -> 9

LowerSeq == <<"a", "b", "c", "d", "e", "f", "g", "h", "i", "j", "k", "l", "m",
              "n", "o", "p", "q", "r", "s", "t", "u", "v", "w", "x", "y", "z">>

UpperSeq == <<"A", "B", "C", "D", "E", "F", "G", "H", "I", "J", "K", "L", "M",
              "N", "O", "P", "Q", "R", "S", "T", "U", "V", "W", "X", "Y", "Z">>

\* The /i flag of URL_PATTERN and the scheme comparison of the URL parser.
ToLower(c) ==
    IF c \in Upper THEN LowerSeq[CHOOSE i \in 1..26 : UpperSeq[i] = c] ELSE c

LowerCase(s) == [i \in 1..Len(s) |-> ToLower(s[i])]

(***************************************************************************)
(* String helpers                                                          *)
(***************************************************************************)
RECURSIVE TrimLeft(_)
TrimLeft(s) ==
    IF s # <<>> /\ Head(s) \in WhiteSpace THEN TrimLeft(Tail(s)) ELSE s

RECURSIVE TrimRight(_)
TrimRight(s) ==
    IF s # <<>> /\ s[Len(s)] \in WhiteSpace
    THEN TrimRight(SubSeq(s, 1, Len(s) - 1))
    ELSE s

\* String.prototype.trim
trim(s) == TrimRight(TrimLeft(s))

\* The longest prefix of s whose characters are not in stop.
RECURSIVE UpTo(_, _)
UpTo(s, stop) ==
    IF s = <<>> \/ Head(s) \in stop THEN <<>>
    ELSE <<Head(s)>> \o UpTo(Tail(s), stop)

\* The longest prefix of s whose characters are all in set.
RECURSIVE Span(_, _)
Span(s, set) ==
    IF s = <<>> \/ Head(s) \notin set THEN <<>>
    ELSE <<Head(s)>> \o Span(Tail(s), set)

\* s.split(sep): the pieces of s between the occurrences of sep.
RECURSIVE Split(_, _)
Split(s, sep) ==
    LET first == UpTo(s, {sep})
    IN  IF Len(first) = Len(s) THEN <<first>>
        ELSE <<first>> \o Split(SubSeq(s, Len(first) + 2, Len(s)), sep)

\* The number a string of digits denotes in the given base.
RECURSIVE Number(_, _)
Number(ds, base) ==
    IF ds = <<>> THEN 0
    ELSE Number(SubSeq(ds, 1, Len(ds) - 1), base) * base + DigitValue(ds[Len(ds)])

AllIn(s, set) == \A i \in 1..Len(s) : s[i] \in set

(***************************************************************************)
(* URL_PATTERN (line 265), matched with the /i flag:                       *)
(*   ^https?:\/\/(?:(?:[A-Z0-9](?:[A-Z0-9-]{0,61}[A-Z0-9])?\.)+[A-Z]{2,6}\.?*)
(*     |localhost|\d{1,3}\.\d{1,3}\.\d{1,3}\.\d{1,3})                      *)
(*     (?::\d+)?(?:\/?|[/?]\S+)$                                           *)
(* No host alternative holds ':', '/' or '?', and what follows the host    *)
(* starts with one of them or is empty, so the host is the text up to the  *)
(* first of these characters.                                              *)
(***************************************************************************)
SchemeLen(s) ==
    IF Len(s) >= 7 /\ LowerCase(SubSeq(s, 1, 7)) = <<"h", "t", "t", "p", ":", "/", "/">>
    THEN 7
    ELSE IF Len(s) >= 8
            /\ LowerCase(SubSeq(s, 1, 8)) = <<"h", "t", "t", "p", "s", ":", "/", "/">>
    THEN 8
    ELSE 0

\* [A-Z0-9](?:[A-Z0-9-]{0,61}[A-Z0-9])?
LabelOK(l) ==
    /\ Len(l) >= 1
    /\ Len(l) <= 63
    /\ l[1] \in AlNum
    /\ l[Len(l)] \in AlNum
    /\ AllIn(l, AlNum \cup {"-"})

\* (?:label\.)+[A-Z]{2,6}\.?
DomainOK(h) ==
    LET body   == IF h # <<>> /\ h[Len(h)] = "." THEN SubSeq(h, 1, Len(h) - 1) ELSE h
        labels == Split(body, ".")
        n      == Len(labels)
    IN  /\ n >= 2
        /\ Len(labels[n]) >= 2
        /\ Len(labels[n]) <= 6
        /\ AllIn(labels[n], Letter)
        /\ \A i \in 1..(n - 1) : LabelOK(labels[i])

LocalhostOK(h) ==
    LowerCase(h) = <<"l", "o", "c", "a", "l", "h", "o", "s", "t">>

\* \d{1,3}\.\d{1,3}\.\d{1,3}\.\d{1,3}
IPv4OK(h) ==
    LET parts == Split(h, ".")
    IN  /\ Len(parts) = 4
        /\ \A i \in 1..4 : Len(parts[i]) \in 1..3 /\ AllIn(parts[i], Digit)

HostOK(h) == DomainOK(h) \/ LocalhostOK(h) \/ IPv4OK(h)

\* (?:\/?|[/?]\S+)$
PathOK(p) ==
    \/ p = <<>>
    \/ p = <<"/">>
    \/ /\ Len(p) >= 2
       /\ p[1] \in {"/", "?"}
       /\ \A i \in 2..Len(p) : p[i] \notin WhiteSpace

\* The host, the digits of the port (empty without one) and the rest of s.
UrlParts(s) ==
    LET n     == SchemeLen(s)
        rest  == SubSeq(s, n + 1, Len(s))
        host  == UpTo(rest, {":", "/", "?"})
        after == SubSeq(rest, Len(host) + 1, Len(rest))
        colon == after # <<>> /\ after[1] = ":"
        port  == IF colon THEN Span(Tail(after), Digit) ELSE <<>>
        path  == IF colon THEN SubSeq(after, Len(port) + 2, Len(after)) ELSE after
    IN  [scheme |-> LowerCase(SubSeq(s, 1, n)), host |-> host, colon |-> colon,
         port |-> port, path |-> path]

\* URL_PATTERN.test(s)
URL_PATTERN(s) ==
    LET u == UrlParts(s)
    IN  /\ SchemeLen(s) > 0
        /\ HostOK(u.host)
        /\ u.colon => (Len(u.port) >= 1 /\ AllIn(u.port, Digit))
        /\ PathOK(u.path)

(***************************************************************************)
(* new URL(url) (line 292) on a string URL_PATTERN accepts: the parser     *)
(* throws on an IPv4 host with a part above 255 or a part with a leading   *)
(* zero that is no octal number, and on a port above 65535.                *)
(***************************************************************************)
IPv4PartOK(p) ==
    IF Len(p) >= 2 /\ p[1] = "0"
    THEN AllIn(p, {"0", "1", "2", "3", "4", "5", "6", "7"}) /\ Number(p, 8) <= 255
    ELSE Number(p, 10) <= 255

URLParses(s) ==
    LET u == UrlParts(s)
    IN  /\ IPv4OK(u.host) => \A i \in 1..4 : IPv4PartOK(Split(u.host, ".")[i])
        /\ u.colon => Number(u.port, 10) <= 65535

\* validateUrl(url), lines 273-302. The length test is on the trimmed text.
validateUrl(url) ==
    LET t == trim(url)
    IN  /\ url # <<>>
        /\ Len(t) >= 10
        /\ Len(t) <= 2048
        /\ URL_PATTERN(t)
        /\ URLParses(t)
        /\ UrlParts(t).scheme \in {<<"h", "t", "t", "p", ":", "/", "/">>,
                                   <<"h", "t", "t", "p", "s", ":", "/", "/">>}

(***************************************************************************)
(* encodeURIComponent (lines 408, 442, 481): the unreserved characters     *)
(* stay, every other character becomes the escape of its UTF-8 byte.       *)
(***************************************************************************)
Unreserved == AlNum \cup {"-", "_", ".", "!", "~", "*", "'", "(", ")"}

PercentCode(c) ==
    CASE c = ":"  -> <<"%", "3", "A">>
      [] c = "/"  -> <<"%", "2", "F">>
      [] c = "?"  -> <<"%", "3", "F">>
      [] c = "="  -> <<"%", "3", "D">>
      [] c = "&"  -> <<"%", "2", "6">>
      [] c = "%"  -> <<"%", "2", "5">>
      [] c = "#"  -> <<"%", "2", "3">>
      [] c = " "  -> <<"%", "2", "0">>
      [] c = "\t" -> <<"%", "0", "9">>
      [] c = "\n" -> <<"%", "0", "A">>

RECURSIVE encodeURIComponent(_)
encodeURIComponent(s) ==
    IF s = <<>> THEN <<>>
    ELSE (IF Head(s) \in Unreserved THEN <<Head(s)>> ELSE PercentCode(Head(s)))
         \o encodeURIComponent(Tail(s))

(***************************************************************************)
(* Configuration, lines 255-262. window.location is where the page was     *)
(* loaded from; an origin is kept as its scheme, host name and port.       *)
(* The page is taken to be served over https from localhost, the case in   *)
(* which WS_URL is a ws: URL on a secure page.                             *)
(***************************************************************************)
Locations ==
    { [protocol |-> "https:", hostname |-> "localhost"] }

IsLocal(loc) == loc.hostname = "localhost" \/ loc.hostname = "127.0.0.1"

BACKEND_URL(loc) ==
    IF IsLocal(loc)
    THEN [scheme |-> "http:", hostname |-> "localhost", port |-> "8000"]
    ELSE [scheme |-> loc.protocol, hostname |-> loc.hostname, port |-> "8000"]

WS_PROTOCOL(loc) == IF loc.protocol = "https:" THEN "wss:" ELSE "ws:"

WS_URL(loc) ==
    IF IsLocal(loc)
    THEN [scheme |-> "ws:", hostname |-> "localhost", port |-> "8000"]
    ELSE [scheme |-> WS_PROTOCOL(loc), hostname |-> loc.hostname, port |-> "8000"]

NoBase == [scheme |-> "", hostname |-> "", port |-> ""]

\* A URL built by one of the template literals: `${base}${path}?url=${url}`.
NoUrl == [base |-> NoBase, path |-> "", url |-> <<>>]

\* line 408
WsUrlOf(loc, videoUrl) ==
    [base |-> WS_URL(loc), path |-> "/ws/waveform", url |-> encodeURIComponent(videoUrl)]

\* line 481
StreamUrlOf(loc, videoUrl) ==
    [base |-> BACKEND_URL(loc), path |-> "/stream", url |-> encodeURIComponent(videoUrl)]

\* line 442
InfoUrlOf(loc, videoUrl) ==
    [base |-> BACKEND_URL(loc), path |-> "/info", url |-> encodeURIComponent(videoUrl)]

(***************************************************************************)
(* Bounds                                                                  *)
(***************************************************************************)
\* Invocations of playAudio that pass validation, over a whole run.
MaxPlays == 2

\* Amplitude messages one waveform channel delivers.
MaxMsgs == 1

\* line 315
MAX_AMPLITUDES == 100

Attempts == 1..MaxPlays

\* 'amplitude' messages beyond MAX_AMPLITUDES on the WebSocket of a long stream.
StreamExtra == 2

StreamLen == MAX_AMPLITUDES + StreamExtra

(***************************************************************************)
(* What the user can have typed into the URL field.                        *)
(***************************************************************************)
InEmpty == <<>>

\* http://999.1.1.1 : URL_PATTERN accepts it, new URL throws
InBadIp == <<"h", "t", "t", "p", ":", "/", "/", "9", "9", "9", ".", "1", ".", "1", ".", "1">>

\* https://a.io/v
InA == <<"h", "t", "t", "p", "s", ":", "/", "/", "a", ".", "i", "o", "/", "v">>

\* " http://b.co/?q=1 " : valid once trimmed
InB == <<" ", "h", "t", "t", "p", ":", "/", "/", "b", ".", "c", "o", "/", "?", "q", "=", "1", " ">>

Inputs == {InEmpty, InBadIp, InA, InB}

(***************************************************************************)
(* State                                                                   *)
(***************************************************************************)
VARIABLES
    location,    \* window.location
    urlInput,    \* urlInput.value
    alertMsg,    \* the text of the alert() dialog that is open, "" when none is
    playBtn,     \* playBtn: disabled, class 'loading', the label of innerHTML
    trackTitle,  \* trackTitle.textContent
    amplitudes,  \* the amplitudes array
    received,    \* the 'amplitude' values received since amplitudes was last reset
    ws,          \* the ws variable: 0 for null, else the socket it refers to
    isPlaying,   \* the isPlaying flag
    audio,       \* audioPlayer: src, paused, and whether its resource failed
    raf,         \* pending requestAnimationFrame(animateWaveform) callbacks
    att,         \* the invocations of playAudio that passed validation
    sock         \* the WebSockets created, sock[k] by invocation k

vars == <<location, urlInput, alertMsg, playBtn, trackTitle, amplitudes, received,
          ws, isPlaying, audio, raf, att, sock>>

\* An invocation of playAudio: where it stands (pc), its videoUrl while it
\* still uses it, whether its /info request set a title and the statements
\* of lines 480-489 it has run.
\*   pc  "idle"  not made yet      "info"  awaiting fetchTrackInfo
\*       "play"  awaiting audioPlayer.play()
\*       "ok"    returned from the try block   "failed"  from the catch block
Attempt(pc, videoUrl, info, done) ==
    [pc |-> pc, videoUrl |-> videoUrl, info |-> info, done |-> done]

NoAttempt == Attempt("idle", <<>>, "none", <<>>)

\* A WebSocket: its readyState, its URL and the 'amplitude' messages it has
\* delivered. "NONE": not created yet.
Socket(readyState, url, n) ==
    [readyState |-> readyState, url |-> url, n |-> n]

NoSock == Socket("NONE", NoUrl, 0)

TextTitle(text) == [text |-> text, of |-> <<>>]

\* The title /info returns for the source its url parameter names.
TitleOf(infoUrl) == [text |-> "<title>", of |-> infoUrl.url]

Init ==
    /\ location \in Locations
    /\ urlInput = InEmpty
    /\ alertMsg = ""
    /\ playBtn = [disabled |-> FALSE, loading |-> FALSE, label |-> "Play"]
    /\ trackTitle = TextTitle("")
    /\ amplitudes = <<>>
    /\ received = <<>>
    /\ ws = 0
    /\ isPlaying = FALSE
    /\ audio = [src |-> NoUrl, paused |-> TRUE, error |-> FALSE]
    /\ raf = 0
    /\ att = [k \in Attempts |-> NoAttempt]
    /\ sock = [k \in Attempts |-> NoSock]

(***************************************************************************)
(* Helpers of the handlers                                                 *)
(***************************************************************************)
\* A connectWaveformWS and an 'ended' listener without ws.close().
CloseSock_never(sk, s) == sk

\* ws.close(): a socket that is connecting or open starts its closing
\* handshake and delivers no further message; on a closing or closed
\* socket, and on null, nothing happens.
CloseSock(sk, s) ==
    IF s # 0 /\ sk[s].readyState \in {"CONNECTING", "OPEN"}
    THEN [sk EXCEPT ![s] = Socket("CLOSING", NoUrl, 0)]
    ELSE sk

\* new WebSocket(wsUrl) from a page served over https with a ws: URL is
\* mixed content: depending on the browser the constructor throws a
\* SecurityError or returns a socket.
MixedContent(loc, wsUrl) ==
    loc.protocol = "https:" /\ wsUrl.base.scheme = "ws:"

\* An onmessage whose trimming removes the newest value (pop for shift).
PushAmplitude_pop(buf, v) ==
    LET pushed == Append(buf, v)
    IN  IF Len(pushed) > MAX_AMPLITUDES
        THEN SubSeq(pushed, 1, Len(pushed) - 1)
        ELSE pushed

\* An onmessage that never removes a value.
PushAmplitude_noShift(buf, v) == Append(buf, v)

\* ws.onmessage for an 'amplitude' message, lines 418-422.
PushAmplitude(buf, v) ==
    LET pushed == Append(buf, v)
    IN  IF Len(pushed) > MAX_AMPLITUDES THEN Tail(pushed) ELSE pushed

\* A catch block that leaves the button as the attempt set it.
ErrorButton_stillLoading == [disabled |-> TRUE, loading |-> TRUE, label |-> "Play"]

\* The button as the catch block and the 'error' listener leave it.
ErrorButton == [disabled |-> FALSE, loading |-> FALSE, label |-> "Play"]

\* line 458
EmptyInput(videoUrl) == videoUrl = <<>>

\* A playAudio without the check of line 464.
InvalidInput_unchecked(videoUrl) == FALSE

\* line 464
InvalidInput(videoUrl) == ~validateUrl(videoUrl)

\* The invocation a call of playAudio becomes: the first not yet made.
NextAttempt ==
    IF \E k \in Attempts : att[k].pc = "idle"
    THEN CHOOSE k \in Attempts :
            att[k].pc = "idle" /\ \A j \in 1..(k - 1) : att[j].pc # "idle"
    ELSE 0

\* Invocation k returns: what is kept of it is how it ended.
Return(k, pc) ==
    att' = [att EXCEPT ![k] = Attempt(pc, <<>>, "none", <<>>)]

(***************************************************************************)
(* playAudio, lines 455-478: from the call to the await of fetchTrackInfo, *)
(* whose fetch of /info is then in flight (pc = "info"). alert() blocks    *)
(* the page until the dialog is dismissed.                                 *)
(***************************************************************************)
PlayAudio ==
    LET videoUrl == trim(urlInput)
    IN  IF EmptyInput(videoUrl)
        THEN /\ alertMsg' = "Please enter a video URL"
             /\ UNCHANGED <<location, urlInput, playBtn, trackTitle, amplitudes,
                            received, ws, isPlaying, audio, raf, att, sock>>
        ELSE IF InvalidInput(videoUrl)
        THEN /\ alertMsg' = "Please enter a valid URL (must start with http:// or https://)"
             /\ UNCHANGED <<location, urlInput, playBtn, trackTitle, amplitudes,
                            received, ws, isPlaying, audio, raf, att, sock>>
        ELSE /\ NextAttempt # 0
             /\ playBtn' = [disabled |-> TRUE, loading |-> TRUE, label |-> "Loading..."]
             /\ trackTitle' = TextTitle("Loading...")
             /\ amplitudes' = <<>>
             /\ received' = <<>>
             /\ att' = [att EXCEPT ![NextAttempt] =
                           Attempt("info", videoUrl, "pending", <<>>)]
             /\ UNCHANGED <<location, urlInput, alertMsg, ws, isPlaying, audio,
                            raf, sock>>

\* The user dismisses the alert dialog; playAudio returns.
DismissAlert ==
    /\ alertMsg # ""
    /\ alertMsg' = ""
    /\ UNCHANGED <<location, urlInput, playBtn, trackTitle, amplitudes, received,
                   ws, isPlaying, audio, raf, att, sock>>

\* pauseAudio, lines 509-513
PauseAudio ==
    /\ audio' = [audio EXCEPT !.paused = TRUE]
    /\ isPlaying' = FALSE
    /\ playBtn' = [playBtn EXCEPT !.label = "Play"]
    /\ UNCHANGED <<location, urlInput, alertMsg, trackTitle, amplitudes, received,
                   ws, raf, att, sock>>

\* A click on the play button (a disabled button gets no click):
\* togglePlayPause, lines 516-525.
TogglePlayPause ==
    /\ alertMsg = ""
    /\ ~playBtn.disabled
    /\ IF isPlaying THEN PauseAudio ELSE PlayAudio

\* The Enter key in the URL field, lines 527-533.
KeypressEnter ==
    /\ alertMsg = ""
    /\ IF ~isPlaying THEN PlayAudio ELSE UNCHANGED vars

\* The user edits the URL field.
SetUrl(v) ==
    /\ alertMsg = ""
    /\ v # urlInput
    /\ urlInput' = v
    /\ UNCHANGED <<location, alertMsg, playBtn, trackTitle, amplitudes, received,
                   ws, isPlaying, audio, raf, att, sock>>

(***************************************************************************)
(* The /info request of invocation k settles: fetchTrackInfo (lines        *)
(* 440-452) sets the title when the response has one and swallows every    *)
(* error; playAudio goes on (lines 480-489) to assign the stream source,   *)
(* connectWaveformWS (lines 403-437) and call audioPlayer.play().          *)
(*   outcome  "title": a JSON response with a title; "notitle": a JSON     *)
(*            response without one (an error body); "error": fetch or      *)
(*            response.json() rejected                                     *)
(*   wsThrows new WebSocket throws, which the catch block handles          *)
(***************************************************************************)
InfoSettle(k, outcome, wsThrows) ==
    LET videoUrl == att[k].videoUrl
        wsUrl    == WsUrlOf(location, videoUrl)
        title1   == IF outcome = "title"
                    THEN TitleOf(InfoUrlOf(location, videoUrl))
                    ELSE trackTitle
        \* assigning src loads the new resource: the element is paused again
        audio1   == [src |-> StreamUrlOf(location, videoUrl), paused |-> TRUE,
                     error |-> FALSE]
        sock1    == CloseSock(sock, ws)
        \* fetchTrackInfo returns nothing: all that is left of the request
        \* is whether it set a title
        info     == IF outcome = "title" THEN "title" ELSE "notitle"
    IN  /\ alertMsg = ""
        /\ att[k].pc = "info"
        /\ wsThrows => MixedContent(location, wsUrl)
        /\ IF wsThrows
           THEN /\ Return(k, "failed")
                /\ audio' = audio1
                /\ sock' = sock1
                /\ ws' = ws
                /\ trackTitle' = TextTitle("Error loading track")
                /\ playBtn' = ErrorButton
           ELSE /\ att' = [att EXCEPT ![k] =
                              Attempt("play", <<>>, info, <<"src", "ws", "play">>)]
                /\ audio' = [audio1 EXCEPT !.paused = FALSE]
                /\ sock' = [sock1 EXCEPT ![k] = Socket("CONNECTING", wsUrl, 0)]
                /\ ws' = k
                /\ trackTitle' = title1
                /\ playBtn' = playBtn
        /\ UNCHANGED <<location, urlInput, alertMsg, amplitudes, received,
                       isPlaying, raf>>

\* animateWaveform, lines 395-400, called with `pending` other frames
\* pending: it draws and, while isPlaying, asks for the next frame.
AnimateWaveform(playing, pending) ==
    IF playing THEN pending + 1 ELSE pending

\* A playAudio that goes on from play() only once its WebSocket is open.
PlayResolve_waitsForChannel(k) ==
    /\ alertMsg = ""
    /\ att[k].pc = "play"
    /\ sock[k].readyState = "OPEN"
    /\ Return(k, "ok")
    /\ isPlaying' = TRUE
    /\ playBtn' = [disabled |-> FALSE, loading |-> FALSE, label |-> "Pause"]
    /\ raf' = AnimateWaveform(TRUE, raf)
    /\ UNCHANGED <<location, urlInput, alertMsg, trackTitle, amplitudes, received,
                   ws, audio, sock>>

\* The promise of audioPlayer.play() of invocation k resolves, lines 491-497.
PlayResolve(k) ==
    /\ alertMsg = ""
    /\ att[k].pc = "play"
    /\ Return(k, "ok")
    /\ isPlaying' = TRUE
    /\ playBtn' = [disabled |-> FALSE, loading |-> FALSE, label |-> "Pause"]
    /\ raf' = AnimateWaveform(TRUE, raf)
    /\ UNCHANGED <<location, urlInput, alertMsg, trackTitle, amplitudes, received,
                   ws, audio, sock>>

\* A catch block that enters the playing state.
PlayReject_playing(k) ==
    /\ alertMsg = ""
    /\ att[k].pc = "play"
    /\ Return(k, "failed")
    /\ isPlaying' = TRUE
    /\ trackTitle' = TextTitle("Error loading track")
    /\ playBtn' = ErrorButton
    /\ UNCHANGED <<location, urlInput, alertMsg, amplitudes, received, ws,
                   audio, raf, sock>>

\* The promise of audioPlayer.play() of invocation k rejects, lines 499-505.
PlayReject(k) ==
    /\ alertMsg = ""
    /\ att[k].pc = "play"
    /\ Return(k, "failed")
    /\ trackTitle' = TextTitle("Error loading track")
    /\ playBtn' = ErrorButton
    /\ UNCHANGED <<location, urlInput, alertMsg, amplitudes, received, ws,
                   isPlaying, audio, raf, sock>>

\* A frame callback runs animateWaveform, lines 395-400.
AnimationFrame ==
    /\ alertMsg = ""
    /\ raf > 0
    /\ raf' = AnimateWaveform(isPlaying, raf - 1)
    /\ UNCHANGED <<location, urlInput, alertMsg, playBtn, trackTitle, amplitudes,
                   received, ws, isPlaying, audio, att, sock>>

(***************************************************************************)
(* The audio element's events                                              *)
(***************************************************************************)
\* 'ended', lines 539-545: playback reached the end of the resource, which
\* leaves the element paused.
AudioEnded ==
    /\ alertMsg = ""
    /\ audio.src # NoUrl
    /\ ~audio.paused
    /\ ~audio.error
    /\ audio' = [audio EXCEPT !.paused = TRUE]
    /\ isPlaying' = FALSE
    /\ playBtn' = [playBtn EXCEPT !.label = "Play"]
    /\ sock' = CloseSock(sock, ws)
    /\ UNCHANGED <<location, urlInput, alertMsg, trackTitle, amplitudes, received,
                   ws, raf, att>>

\* An 'error' listener that calls playAudio again.
AudioError_retry ==
    /\ alertMsg = ""
    /\ audio.src # NoUrl
    /\ ~audio.error
    /\ audio' = [audio EXCEPT !.error = TRUE]
    /\ isPlaying' = FALSE
    /\ playBtn' = [disabled |-> TRUE, loading |-> TRUE, label |-> "Loading..."]
    /\ trackTitle' = TextTitle("Loading...")
    /\ att' = IF NextAttempt # 0
              THEN [att EXCEPT ![NextAttempt] =
                       Attempt("info", trim(urlInput), "pending", <<>>)]
              ELSE att
    /\ UNCHANGED <<location, urlInput, alertMsg, amplitudes, received, ws, raf,
                   sock>>

\* 'error', lines 547-554: the resource could not be loaded or decoded.
AudioError ==
    /\ alertMsg = ""
    /\ audio.src # NoUrl
    /\ ~audio.error
    /\ audio' = [audio EXCEPT !.error = TRUE]
    /\ isPlaying' = FALSE
    /\ playBtn' = ErrorButton
    /\ trackTitle' = TextTitle("Error loading audio")
    /\ UNCHANGED <<location, urlInput, alertMsg, amplitudes, received, ws, raf,
                   att, sock>>

(***************************************************************************)
(* The waveform WebSocket's events, lines 411-436. The handlers close over *)
(* the module's amplitudes array, not over the socket they belong to.      *)
(***************************************************************************)
\* onopen
WsOpen(s) ==
    /\ alertMsg = ""
    /\ sock[s].readyState = "CONNECTING"
    /\ sock' = [sock EXCEPT ![s].readyState = "OPEN"]
    /\ UNCHANGED <<location, urlInput, alertMsg, playBtn, trackTitle, amplitudes,
                   received, ws, isPlaying, audio, raf, att>>

\* onmessage with {type: 'amplitude', value}: the value is named by the
\* socket it came on and its place in that socket's stream.
WsAmplitude(s, maxMsgs) ==
    /\ alertMsg = ""
    /\ sock[s].readyState = "OPEN"
    /\ sock[s].n < maxMsgs
    /\ sock' = [sock EXCEPT ![s].n = @ + 1]
    /\ amplitudes' = PushAmplitude(amplitudes, <<s, sock[s].n + 1>>)
    /\ received' = Append(received, <<s, sock[s].n + 1>>)
    /\ UNCHANGED <<location, urlInput, alertMsg, playBtn, trackTitle, ws,
                   isPlaying, audio, raf, att>>

\* onmessage with {type: 'complete'}: a console line, no state
WsComplete(s) ==
    /\ alertMsg = ""
    /\ sock[s].readyState = "OPEN"
    /\ UNCHANGED vars

\* onmessage with {type: 'error', message}: a console line, no state
WsErrorMessage(s) ==
    /\ alertMsg = ""
    /\ sock[s].readyState = "OPEN"
    /\ UNCHANGED vars

\* The connection fails: onerror, then onclose.
WsError(s) ==
    /\ alertMsg = ""
    /\ sock[s].readyState \in {"CONNECTING", "OPEN"}
    /\ sock' = [sock EXCEPT ![s] = Socket("CLOSED", NoUrl, 0)]
    /\ UNCHANGED <<location, urlInput, alertMsg, playBtn, trackTitle, amplitudes,
                   received, ws, isPlaying, audio, raf, att>>

\* The connection closes (the server's close, or the end of ws.close()): onclose.
WsClose(s) ==
    /\ alertMsg = ""
    /\ sock[s].readyState \in {"OPEN", "CLOSING"}
    /\ sock' = [sock EXCEPT ![s] = Socket("CLOSED", NoUrl, 0)]
    /\ UNCHANGED <<location, urlInput, alertMsg, playBtn, trackTitle, amplitudes,
                   received, ws, isPlaying, audio, raf, att>>

(***************************************************************************)
(* Specification                                                           *)
(***************************************************************************)
Next ==
    \/ TogglePlayPause
    \/ KeypressEnter
    \/ DismissAlert
    \/ \E v \in Inputs : SetUrl(v)
    \/ \E k \in Attempts, outcome \in {"title", "notitle", "error"},
          wsThrows \in BOOLEAN : InfoSettle(k, outcome, wsThrows)
    \/ \E k \in Attempts : PlayResolve(k)
    \/ \E k \in Attempts : PlayReject(k)
    \/ AnimationFrame
    \/ AudioEnded
    \/ AudioError
    \/ \E s \in Attempts : WsOpen(s)
    \/ \E s \in Attempts : WsAmplitude(s, MaxMsgs)
    \/ \E s \in Attempts : WsComplete(s)
    \/ \E s \in Attempts : WsErrorMessage(s)
    \/ \E s \in Attempts : WsError(s)
    \/ \E s \in Attempts : WsClose(s)

Spec == Init /\ [][Next]_vars

(***************************************************************************)
(* Properties                                                              *)
(***************************************************************************)
InFlight(k) == att[k].pc \in {"info", "play"}

Returned(k) == att[k].pc \in {"ok", "failed"}

Live(s) == sock[s].readyState \in {"CONNECTING", "OPEN"}

ErrorTexts == {"Error loading track", "Error loading audio"}

\* C1: whenever trackTitle shows a title returned by /info and a stream
\* source is set, the title was returned for the URL of audioPlayer.src and
\* of the current waveform channel.
C1_InfoAndStreamSameSource ==
    (trackTitle.text = "<title>" /\ audio.src # NoUrl) =>
        /\ trackTitle.of = audio.src.url
        /\ (ws # 0 /\ Live(ws)) => sock[ws].url.url = trackTitle.of

\* The inputs whose trimmed text is empty or fails validateUrl.
RejectedInputs ==
    {v \in Inputs : trim(v) = <<>> \/ ~validateUrl(trim(v))}

\* C2: a call of playAudio with an empty or invalid trimmed input starts no
\* /info request, assigns no stream source, opens no WebSocket and leaves
\* isPlaying, amplitudes, ws, trackTitle and the play button unchanged.
C2_RejectBeforeExternal ==
    [][ ( /\ urlInput \in RejectedInputs
          /\ ~isPlaying
          /\ TogglePlayPause \/ KeypressEnter )
        => UNCHANGED <<att, audio, sock, ws, isPlaying, amplitudes, received,
                       trackTitle, playBtn, raf>> ]_vars

\* An invalid, non-empty input was rejected: its alert is open and nothing
\* was ever requested.
C2_Witness ==
    /\ alertMsg = "Please enter a valid URL (must start with http:// or https://)"
    /\ urlInput = InBadIp
    /\ \A k \in Attempts : att[k].pc = "idle"

\* C3: a play attempt whose /info request failed (a network error, or a
\* response without a title) ends with trackTitle showing an error text and
\* isPlaying false.
C3_FailedResolutionShowsError ==
    [][ \A k \in Attempts :
          ( /\ InFlight(k)
            /\ Returned(k)'
            /\ \/ att[k].pc = "play" /\ att[k].info = "notitle"
               \/ \E o \in {"notitle", "error"} : InfoSettle(k, o, TRUE) )
          => (trackTitle'.text \in ErrorTexts /\ ~isPlaying') ]_vars

\* The /info request and the play() promise of every invocation settle, and
\* the event loop serves its queues fairly: the continuation of a settled
\* promise runs although alert dialogs may block the page again and again,
\* and an open dialog is dismissed at some time.
SpecLive ==
    /\ Spec
    /\ WF_vars(DismissAlert)
    /\ \A k \in Attempts :
          SF_vars(\/ \E outcome \in {"title", "notitle", "error"}, wsThrows \in BOOLEAN :
                        InfoSettle(k, outcome, wsThrows)
                  \/ PlayResolve(k)
                  \/ PlayReject(k))

\* C4: provided its /info request and its play() promise settle, every play
\* attempt in flight (it has disabled the button and set the loading state)
\* returns, leaving the button enabled and not loading, labelled Pause when
\* it succeeded and Play when it failed.
C4_AttemptNeverHangs ==
    \A k \in Attempts :
        InFlight(k) ~>
            /\ Returned(k)
            /\ ~playBtn.disabled
            /\ ~playBtn.loading
            /\ playBtn.label = (IF att[k].pc = "ok" THEN "Pause" ELSE "Play")

\* One attempt has returned from the try block and the other from the catch
\* block, the button left as the failed one set it.
C4_Witness ==
    /\ att[1].pc = "ok"
    /\ att[2].pc = "failed"
    /\ playBtn = [disabled |-> FALSE, loading |-> FALSE, label |-> "Play"]

\* C5: an attempt that has called audioPlayer.play() can go on to the playing
\* state whatever the state of its WebSocket: still connecting, open without
\* a message, closing or closed.
C5_ChannelNeverBlocksAudio ==
    \A k \in Attempts :
        (att[k].pc = "play" /\ alertMsg = "") => ENABLED PlayResolve(k)

\* The playing state was reached while the attempt's WebSocket is still
\* connecting and no amplitude has arrived.
C5_Witness ==
    /\ isPlaying
    /\ ws # 0
    /\ att[ws].pc = "ok"
    /\ sock[ws].readyState = "CONNECTING"
    /\ received = <<>>

\* The handlers of the waveform WebSocket: onmessage with an 'error' message,
\* onerror and onclose.
ChannelFailure ==
    \E s \in Attempts : WsErrorMessage(s) \/ WsError(s) \/ WsClose(s)

\* C6: the handlers of the waveform channel leave isPlaying, the audio
\* element and the play button unchanged, and every attempt whose /info
\* request has settled goes on to call audioPlayer.play(), whether or not
\* its channel could be created.
C6_ChannelFailureKeepsAudio ==
    [][ /\ ChannelFailure => UNCHANGED <<isPlaying, audio, playBtn>>
        /\ \A k \in Attempts :
              (att[k].pc = "info" /\ att'[k].pc # "info") =>
                  (att'[k].pc = "play" /\ ~audio'.paused) ]_vars

\* C7: after the 'ended' event, after the 'error' event and after a rejected
\* play() no WebSocket of the session is connecting or open: neither the one
\* ws refers to nor the one the failed attempt created.
C7_TeardownOnTerminal ==
    [][ /\ (AudioEnded \/ AudioError) => (ws' = 0 \/ ~Live(ws)')
        /\ \A k \in Attempts :
              (att[k].pc = "play" /\ att'[k].pc = "failed") => ~Live(k)' ]_vars

\* The attempt that last reset the amplitudes buffer, 0 before the first.
LastAttempt ==
    IF \E k \in Attempts : att[k].pc # "idle"
    THEN CHOOSE k \in Attempts :
            att[k].pc # "idle" /\ \A j \in Attempts : j > k => att[j].pc = "idle"
    ELSE 0

\* C8: every sample in the amplitudes buffer was received on the WebSocket
\* opened by the attempt that last reset the buffer.
C8_BufferOfOneSession ==
    \A i \in 1..Len(amplitudes) : amplitudes[i][1] = LastAttempt

\* C10: isPlaying becomes true only in the step in which the play() promise
\* of an attempt resolves, that attempt having assigned the stream source,
\* created its WebSocket and called play(), in that order.
C10_PlayingOnlyAfterAttach ==
    [][ (~isPlaying /\ isPlaying') =>
            \E k \in Attempts :
                /\ att[k].pc = "play"
                /\ att[k].done = <<"src", "ws", "play">>
                /\ att'[k].pc = "ok"
                /\ sock[k].readyState # "NONE"
                /\ audio.src # NoUrl ]_vars

\* The playing state, entered by an attempt that returned from the try block.
C10_Witness ==
    /\ isPlaying
    /\ \E k \in Attempts : att[k].pc = "ok" /\ sock[k].readyState = "OPEN"
    /\ playBtn.label = "Pause"

(***************************************************************************)
(* Long streams: a URL is in the field, every /info request returns a      *)
(* title and the first session's WebSocket delivers more than              *)
(* MAX_AMPLITUDES samples, while the user plays, pauses and plays again.   *)
(***************************************************************************)
InitStream ==
    /\ location \in Locations
    /\ urlInput = InA
    /\ alertMsg = ""
    /\ playBtn = [disabled |-> FALSE, loading |-> FALSE, label |-> "Play"]
    /\ trackTitle = TextTitle("")
    /\ amplitudes = <<>>
    /\ received = <<>>
    /\ ws = 0
    /\ isPlaying = FALSE
    /\ audio = [src |-> NoUrl, paused |-> TRUE, error |-> FALSE]
    /\ raf = 0
    /\ att = [k \in Attempts |-> NoAttempt]
    /\ sock = [k \in Attempts |-> NoSock]

NextStream ==
    \/ TogglePlayPause
    \/ KeypressEnter
    \/ \E k \in Attempts : InfoSettle(k, "title", FALSE)
    \/ \E k \in Attempts : PlayResolve(k)
    \/ \E s \in Attempts : WsOpen(s)
    \/ \E s \in Attempts : WsAmplitude(s, IF s = 1 THEN StreamLen ELSE MaxMsgs)
    \/ \E s \in Attempts : WsComplete(s)
    \/ \E s \in Attempts : WsErrorMessage(s)
    \/ \E s \in Attempts : WsClose(s)

SpecStream == InitStream /\ [][NextStream]_vars

\* a is what is left of r when values are dropped from its front
IsSuffix(a, r) ==
    /\ Len(a) <= Len(r)
    /\ a = SubSeq(r, Len(r) - Len(a) + 1, Len(r))

\* C9: between two resets the amplitudes buffer is a contiguous suffix of
\* the 'amplitude' values received, in arrival order; a step that receives
\* a value appends it and removes values only from the front, and
\* 'complete' and 'error' messages leave the buffer unchanged.
C9_DroppedNeverReordered ==
    [][ /\ IsSuffix(amplitudes', received')
        /\ (\E s \in Attempts : WsComplete(s) \/ WsErrorMessage(s)) =>
              UNCHANGED amplitudes
        /\ \A s \in Attempts :
              WsAmplitude(s, StreamLen) =>
                  /\ amplitudes' # <<>>
                  /\ amplitudes'[Len(amplitudes')] = received'[Len(received')]
                  /\ IsSuffix(amplitudes', Append(amplitudes, received'[Len(received')])) ]_vars

\* More than MAX_AMPLITUDES values were received since the last reset: the
\* buffer is full and the oldest values are gone.
C9_Witness ==
    /\ Len(received) > MAX_AMPLITUDES
    /\ Len(amplitudes) = MAX_AMPLITUDES
    /\ amplitudes[1] # received[1]
    /\ amplitudes[MAX_AMPLITUDES] = received[Len(received)]

\* A user action that can call playAudio: a click on the button or Enter.
UserAction == TogglePlayPause \/ KeypressEnter

\* The attempts whose /info request is issued in this step.
Started == {k \in Attempts : att[k].pc = "idle" /\ att'[k].pc # "idle"}

\* C11: an /info request is issued only by a user action, one for each; an
\* attempt goes once from its /info request to the source assignment and
\* the channel open, which happen in no other step; an attempt that has
\* returned, failed or not, never requests anything again.
C11_NoAutomaticRetry ==
    [][ /\ Started # {} => (UserAction /\ Cardinality(Started) = 1)
        /\ \A k \in Attempts :
              /\ Returned(k) => att'[k] = att[k]
              /\ att[k].pc = "play" => att'[k].pc \in {"play", "ok", "failed"}
              /\ att[k].pc = "info" => att'[k].pc \in {"info", "play", "failed"}
              /\ (sock[k].readyState = "NONE" /\ sock'[k].readyState # "NONE") =>
                    (att[k].pc = "info" /\ att'[k].pc = "play")
        /\ audio'.src # audio.src =>
              \E k \in Attempts : att[k].pc = "info" /\ att'[k].pc # "info" ]_vars

\* An attempt has failed in the catch block, the audio element has fired
\* 'error', and nothing is requested: the next attempt has not been made.
C11_Witness ==
    /\ att[1].pc = "failed"
    /\ att[2].pc = "idle"
    /\ audio.error
    /\ trackTitle.text = "Error loading audio"

\* C12: at most one invocation of playAudio is between its button update
\* and its return.
C12_OneAttemptInFlight ==
    Cardinality({k \in Attempts : InFlight(k)}) <= 1

\* C13: the button is labelled Pause exactly when isPlaying is true.
C13_ButtonAgreesWithFlag ==
    (playBtn.label = "Pause") <=> isPlaying

\* C14: a WebSocket that is connecting or open is the one ws refers to;
\* every other socket created has had close() called or is closed.
C14_OneOpenSocket ==
    \A s \in Attempts : Live(s) => ws = s

\* A second attempt has replaced the socket of the first: the first was
\* closed by connectWaveformWS, the second is the one in ws and is open.
C14_Witness ==
    /\ ws = 2
    /\ sock[2].readyState = "OPEN"
    /\ sock[1].readyState \in {"CLOSING", "CLOSED"}
    /\ att[1].pc = "ok"

\* C15: the amplitudes buffer never holds more than MAX_AMPLITUDES values.
C15_BufferBounded ==
    Len(amplitudes) <= MAX_AMPLITUDES

\* Every message of both sockets has arrived since the last reset, more
\* than the buffer takes, and the buffer is exactly full.
C15_Witness ==
    /\ Len(received) = StreamLen + MaxMsgs
    /\ Len(amplitudes) = MAX_AMPLITUDES
    /\ sock[1].n = StreamLen

\* C16: at most one requestAnimationFrame(animateWaveform) callback is pending.
C16_OneAnimationLoop ==
    raf <= 1

=============================================================================
